---- MODULE Spec2Model ----
(***************************************************************************)
(* aws-notifier: a Lambda handler that routes an inbound JSON payload      *)
(* either to the SNS record classifier or to the Cloudwatch event          *)
(* classifier, which post to Slack (chat sink) and Pagerduty (paging       *)
(* sink).  One behaviour of the model is one invocation of HandleRequest.  *)
(***************************************************************************)
EXTENDS Integers, Sequences, FiniteSets, TLC

VARIABLES
    env,      \* names of the variables set in the process environment
    raw,      \* the inbound payload (a JSON document, or text that is none)
    pc,       \* the function the invocation is about to run
    idx,      \* 1-based position in the record list of the range loop
    invoked,  \* classifiers processMessage has called, in call order
    calls,    \* HTTP POSTs attempted so far, in order
    outcome,  \* "pending", or how the invocation ended: "nil", "error", "panic"
    err       \* text of the returned error (or of the panic)

vars == <<env, raw, pc, idx, invoked, calls, outcome, err>>

----------------------------------------------------------------------------
(* Bounds of the explored inputs.                                          *)

MaxRecords == 3
MaxDims == 2

SeqsUpTo(S, n) == UNION {[1..k -> S] : k \in 0..n}

----------------------------------------------------------------------------
(* Library behaviour the code relies on.                                   *)

\* strings.Contains(s, substr)
StringsContains(s, substr) ==
    \E i \in 1..(Len(s) - Len(substr) + 1) :
        SubSeq(s, i, i + Len(substr) - 1) = substr

\* contains(s []string, el string): membership in a list of strings
contains(s, el) == \E i \in 1..Len(s) : s[i] = el

\* The text that is not JSON at all, handed in as the payload.
MalformedText == "not json"

\* err.Error() of the *json.SyntaxError that json.Unmarshal returns for the
\* texts of the model that are not JSON: empty input, MalformedText (an 'n'
\* begins the literal null, the 'o' after it is the offence), and text whose
\* first byte cannot begin a JSON value.
SyntaxErrorText(text) ==
    IF text = "" THEN "unexpected end of JSON input"
    ELSE IF text = MalformedText
    THEN "invalid character 'o' in literal null (expecting 'u')"
    ELSE "invalid character '" \o SubSeq(text, 1, 1)
         \o "' looking for beginning of value"

\* err.Error() of the *json.UnmarshalTypeError for a JSON value of the wrong
\* type at the top of the input.
TypeErrorText(value, goType) ==
    "json: cannot unmarshal " \o value \o " into Go value of type " \o goType

\* The same for a member of an object: the innermost struct, the path of
\* JSON keys to the member, and the Go type of the field (Go 1.14 and later).
FieldTypeErrorText(value, struct, field, goType) ==
    "json: cannot unmarshal " \o value \o " into Go struct field "
    \o struct \o "." \o field \o " of type " \o goType

\* err.Error() of the *url.Error of a POST that the client's redirect policy
\* stopped; url is the Location of the last redirect, here the URL posted to
\* (the server redirects to itself).
HttpErrorText(url) == "Post \"" \o url \o "\": stopped after 10 redirects"

\* The text of the panic on a nil response.
NilDerefText == "runtime error: invalid memory address or nil pointer dereference"

\* What http.Post can hand back as (res, err): a response and no error; a nil
\* response and an error (every transport failure); a response and an error
\* (only when the client's redirect policy stops the request).
PostOutcomes ==
    { [res |-> TRUE,  err |-> FALSE],
      [res |-> FALSE, err |-> TRUE],
      [res |-> TRUE,  err |-> TRUE] }

PostOk == [res |-> TRUE, err |-> FALSE]

----------------------------------------------------------------------------
(* Slack message colours.                                                  *)

ColorInfo == "#00BFFF"
ColorSuccess == "#00FF00"
ColorWarn == "#FFD700"
ColorError == "#DC143C"

----------------------------------------------------------------------------
(* Inbound payloads.  A payload is the JSON document handed to the         *)
(* handler: `valid` says whether the text parses as JSON at all; the other *)
(* fields are the members the code reads.  A member that holds a JSON      *)
(* value of varying type is a record [t, ...] tagged with that type.       *)

\* Trigger dimensions of an alarm ("name"/"value" pairs).
Dimensions ==
    { [name |-> "az", value |-> "us-east-1b"],
      [name |-> "db", value |-> "primary"],
      [name |-> "az", value |-> "primary"] }

DimLists == SeqsUpTo(Dimensions, MaxDims)

ExampleDims ==
    << [name |-> "az", value |-> "us-east-1b"],
       [name |-> "db", value |-> "primary"] >>

\* The members of a CloudwatchAlarm the code reads.
AlarmOf(dims) ==
    [ NewStateReason |-> "Threshold Crossed",
      Trigger |-> [ MetricName |-> "DeliveryErrors",
                    Namespace |-> "ExampleNamespace",
                    Dimensions |-> dims ] ]

AlarmPayloads == { AlarmOf(dims) : dims \in DimLists \cup {ExampleDims} }

\* The zero value of CloudwatchAlarm (what `var alarm CloudwatchAlarm` holds).
ZeroAlarm ==
    [ NewStateReason |-> "",
      Trigger |-> [ MetricName |-> "", Namespace |-> "", Dimensions |-> <<>> ] ]

\* The JSON text of an alarm, as SNS carries it in Sns.Message.
DimensionJSON(d) ==
    "{\"name\":\"" \o d.name \o "\",\"value\":\"" \o d.value \o "\"}"

RECURSIVE DimensionsJSON(_)
DimensionsJSON(ds) ==
    IF ds = <<>> THEN ""
    ELSE DimensionJSON(Head(ds))
         \o (IF Len(ds) > 1 THEN "," ELSE "")
         \o DimensionsJSON(Tail(ds))

AlarmJSON(a) ==
    "{\"NewStateReason\":\"" \o a.NewStateReason
    \o "\",\"Trigger\":{\"MetricName\":\"" \o a.Trigger.MetricName
    \o "\",\"Namespace\":\"" \o a.Trigger.Namespace
    \o "\",\"Dimensions\":[" \o DimensionsJSON(a.Trigger.Dimensions)
    \o "]}}"

AlarmTexts == [a \in AlarmPayloads |-> AlarmJSON(a)]

PlainText == "Hello from SNS!"

\* json.Unmarshal([]byte(record.Sns.Message), &alarm): the text decodes when
\* it is the JSON text of an alarm; any other text of the model is not JSON,
\* and `text` is then the error's text.
UnmarshalAlarm(text) ==
    LET hits == {a \in AlarmPayloads : AlarmTexts[a] = text}
    IN  IF hits = {}
        THEN [err |-> TRUE, text |-> SyntaxErrorText(text), alarm |-> ZeroAlarm]
        ELSE [err |-> FALSE, text |-> "", alarm |-> CHOOSE a \in hits : TRUE]

SubjectAlarm == "ALARM: cpu-high in EU - Ireland"
SubjectOK == "OK: cpu-high in EU - Ireland"
SubjectBoth == "ALARM: OK: cpu-high in EU - Ireland"
SubjectRDS == "RDS Notification Message"
SubjectPlain == "TestInvoke"

\* One element of "Records".  wellTyped: every member has the JSON type that
\* SNSRecord declares for it (FALSE for the record with "Sns": "oops").
Record(source, subject, message) ==
    [ EventSource |-> source,
      wellTyped |-> TRUE,
      Sns |-> [Subject |-> subject, Message |-> message] ]

MistypedRecord ==
    [ EventSource |-> "aws:sns",
      wellTyped |-> FALSE,
      Sns |-> [Subject |-> "", Message |-> ""] ]

\* Records that occur in batches of any length.
BatchRecords ==
    { Record("aws:sns", s, m) :
        s \in {SubjectAlarm, SubjectOK, SubjectRDS, SubjectPlain},
        m \in {PlainText, AlarmTexts[AlarmOf(ExampleDims)]} }
    \cup { Record("aws:s3", SubjectPlain, PlainText), MistypedRecord }

\* Alarm records over every dimension list, explored in batches of one.
AlarmRecords ==
    { Record("aws:sns", s, AlarmTexts[a]) :
        s \in {SubjectAlarm, SubjectOK, SubjectBoth}, a \in AlarmPayloads }

\* The "detail" member of a Cloudwatch event: its JSON type, its raw text,
\* and (for an object) its members.
NoMembers == <<>>

DetailAbsent == [t |-> "absent", text |-> "", v |-> NoMembers]
DetailNull == [t |-> "null", text |-> "null", v |-> NoMembers]
DetailString == [t |-> "string", text |-> "\"oops\"", v |-> NoMembers]

DetailEC2(state) ==
    [ t |-> "object",
      text |-> "{\"instance-id\":\"i-abcd1111\",\"state\":\"" \o state \o "\"}",
      v |-> ("instance-id" :> "i-abcd1111" @@ "state" :> state) ]

DetailLifecycle ==
    [ t |-> "object",
      text |-> "{\"AutoScalingGroupName\":\"my-asg\",\"EC2InstanceId\":\"i-1234567890abcdef0\",\"LifecycleTransition\":\"autoscaling:EC2_INSTANCE_LAUNCHING\"}",
      v |-> ("AutoScalingGroupName" :> "my-asg"
             @@ "EC2InstanceId" :> "i-1234567890abcdef0"
             @@ "LifecycleTransition" :> "autoscaling:EC2_INSTANCE_LAUNCHING") ]

\* The member "Availability Zone" of the nested object "Details" is kept
\* under its own name.
DetailActivity ==
    [ t |-> "object",
      text |-> "{\"StatusCode\":\"InProgress\",\"Details\":{\"Availability Zone\":\"us-east-1b\"},\"EC2InstanceId\":\"i-b188560f\",\"Cause\":\"a user request\"}",
      v |-> ("StatusCode" :> "InProgress"
             @@ "Availability Zone" :> "us-east-1b"
             @@ "EC2InstanceId" :> "i-b188560f"
             @@ "Cause" :> "a user request") ]

Details ==
    { DetailAbsent, DetailNull, DetailString, DetailEC2("pending"),
      DetailEC2("terminated"), DetailLifecycle, DetailActivity }

\* A member of a decoded detail object; "" (the zero value) when it is absent.
Member(detail, key) == IF key \in DOMAIN detail.v THEN detail.v[key] ELSE ""

Sources == {"aws.ec2", "aws.events", "aws.autoscaling", "aws.s3", ""}

DetailTypes ==
    { "EC2 Instance State-change Notification",
      "EC2 Instance-launch Lifecycle Action",
      "EC2 Instance-terminate Lifecycle Action",
      "EC2 Instance Launch Unsuccessful",
      "EC2 Instance Terminate Unsuccessful",
      "EC2 Instance Launch Successful",
      "" }

NoRecords == {[t |-> "absent", v |-> <<>>], [t |-> "null", v |-> <<>>]}

Payload(valid, records, id, detailType, source, headerTyped, detail) ==
    [ valid |-> valid,
      Records |-> records,
      id |-> id,
      detailType |-> detailType,
      source |-> source,
      headerTyped |-> headerTyped,
      detail |-> detail ]

\* MalformedText: text that is not JSON.
MalformedPayload ==
    Payload(FALSE, [t |-> "absent", v |-> <<>>], "", "", "", TRUE, DetailAbsent)

\* {"Records": "oops"}: JSON, but "Records" is no list.
MistypedEnvelope ==
    Payload(TRUE, [t |-> "string", v |-> <<>>], "", "", "", TRUE, DetailAbsent)

\* {"Records": [...]}
RecordPayloads ==
    { Payload(TRUE, [t |-> "array", v |-> rs], "", "", "", TRUE, DetailAbsent) :
        rs \in SeqsUpTo(BatchRecords, MaxRecords) \cup [1..1 -> AlarmRecords] }

\* Direct events; headerTyped is FALSE when the pass-through member "account"
\* is a JSON number (123456789012), which CloudwatchEvent declares a string.
EventPayloads ==
    { Payload(TRUE, r, IF s = "" /\ dt = "" /\ d.t = "absent" THEN "" ELSE "7bf73129",
              dt, s, h, d) :
        r \in NoRecords, s \in Sources, dt \in DetailTypes,
        h \in BOOLEAN, d \in Details }

Payloads ==
    {MalformedPayload, MistypedEnvelope} \cup RecordPayloads \cup EventPayloads

\* {}: a JSON object with no member.
EmptyObject ==
    Payload(TRUE, [t |-> "absent", v |-> <<>>], "", "", "", TRUE, DetailAbsent)

EnvNames == {"slack_webhook", "pagerduty_key"}

----------------------------------------------------------------------------
(* The sinks.  A sink call yields the POST it attempted and how the        *)
(* function ended: ret is "nil", "error" (with err) or "panic".            *)

SlackWebhook == "https://hooks.slack.com/services/T000/B000/XXXX"
PagerdutyURL == "https://events.pagerduty.com/generic/2010-04-15/create_event.json"
PagerdutyKey == "0123456789abcdef"

SlackField(title, value, short) ==
    [Title |-> title, Value |-> value, Short |-> short]

\* A SlackMessage with its one attachment.
SlackMessage(fallback, color, fields) ==
    [Attachments |-> << [Fallback |-> fallback, Color |-> color, Fields |-> fields] >>]

NoCalls == <<>>

\* SlackNotifier.sendMessage: res.Body.Close() runs before err is looked at,
\* so a nil response panics; json.Marshal of strings and booleans cannot fail.
sendMessage(msg, post) ==
    LET call == [sink |-> "slack", url |-> SlackWebhook, body |-> msg, post |-> post]
    IN  IF ~post.res
        THEN [calls |-> <<call>>, ret |-> "panic", err |-> NilDerefText]
        ELSE IF post.err
        THEN [calls |-> <<call>>, ret |-> "error",
              err |-> "Failed to send Slack message - got error: "
                      \o HttpErrorText(SlackWebhook)]
        ELSE [calls |-> <<call>>, ret |-> "nil", err |-> ""]

\* PagerdutyNotifier.triggerIncident
triggerIncident(incident, post) ==
    LET req == [ ServiceKey |-> PagerdutyKey,
                 EventType |-> "trigger",
                 Description |-> incident.Description,
                 IncidentKey |-> incident.IncidentKey,
                 Client |-> "AWS Event Processor",
                 Details |-> incident.Details ]
        call == [sink |-> "pagerduty", url |-> PagerdutyURL, body |-> req, post |-> post]
    IN  IF ~post.res
        THEN [calls |-> <<call>>, ret |-> "panic", err |-> NilDerefText]
        ELSE IF post.err
        THEN [calls |-> <<call>>, ret |-> "error",
              err |-> "failed to trigger Pagerduty Incident - got error: "
                      \o HttpErrorText(PagerdutyURL)]
        ELSE [calls |-> <<call>>, ret |-> "nil", err |-> ""]

----------------------------------------------------------------------------
(* processSNSRecord                                                        *)

\* The subject marks a Cloudwatch alarm.
IsAlarmSubject(subject) ==
    StringsContains(subject, "ALARM:") \/ StringsContains(subject, "OK:")

\* isFailing true of every alarm record, the OK ones included.
isFailingOnAnyMarker(subject) ==
    StringsContains(subject, "ALARM:") \/ StringsContains(subject, "OK:")

isFailing(subject) == StringsContains(subject, "ALARM:")

IsRDSSubject(subject) == StringsContains(subject, "RDS Notification Message")

AlarmColor(failing) == IF failing THEN ColorError ELSE ColorSuccess

AlarmFields(record, alarm) ==
    << SlackField(record.Sns.Subject, alarm.NewStateReason, FALSE) >>
    \o [ i \in 1..Len(alarm.Trigger.Dimensions) |->
           SlackField(alarm.Trigger.Dimensions[i].name,
                      alarm.Trigger.Dimensions[i].value, TRUE) ]
    \o << SlackField("Namespace", alarm.Trigger.Namespace, TRUE),
          SlackField("MetricName", alarm.Trigger.MetricName, TRUE) >>

AlarmMessage(record, alarm) ==
    SlackMessage(alarm.NewStateReason,
                 AlarmColor(isFailing(record.Sns.Subject)),
                 AlarmFields(record, alarm))

\* The loop over the dimensions: incidentKey += dv.Value
RECURSIVE IncidentKeyFrom(_, _)
IncidentKeyFrom(key, dims) ==
    IF dims = <<>> THEN key
    ELSE IncidentKeyFrom(key \o Head(dims).value, Tail(dims))

\* The key with each value put in front: incidentKey = dv.Value + incidentKey
RECURSIVE IncidentKeyPrepending(_, _)
IncidentKeyPrepending(key, dims) ==
    IF dims = <<>> THEN key
    ELSE IncidentKeyPrepending(Head(dims).value \o key, Tail(dims))

IncidentKeyValuesInFront(dims) == IncidentKeyPrepending("incident", dims)

IncidentKey(dims) == IncidentKeyFrom("incident", dims)

\* The loop over the dimensions: detailFields[dv.Name] = dv.Value
RECURSIVE DetailFieldsFrom(_, _)
DetailFieldsFrom(fields, dims) ==
    IF dims = <<>> THEN fields
    ELSE DetailFieldsFrom((Head(dims).name :> Head(dims).value) @@ fields, Tail(dims))

DetailFields(dims) == DetailFieldsFrom(<<>>, dims)

Incident(record, alarm) ==
    [ Description |-> record.Sns.Subject \o "-" \o alarm.NewStateReason,
      IncidentKey |-> IncidentKey(alarm.Trigger.Dimensions),
      Details |-> [Fields |-> DetailFields(alarm.Trigger.Dimensions)] ]

PlainMessage(record) ==
    SlackMessage(record.Sns.Message, ColorInfo,
                 << SlackField(record.Sns.Subject, record.Sns.Message, FALSE) >>)

\* The alarm branch with the incident triggered before the chat message.
AlarmBranchPagingFirst(record, alarm, post1, post2) ==
    IF isFailing(record.Sns.Subject)
    THEN LET paged == triggerIncident(Incident(record, alarm), post2)
         IN  IF paged.ret # "nil" THEN paged
             ELSE LET sent == sendMessage(AlarmMessage(record, alarm), post1)
                  IN  [calls |-> paged.calls \o sent.calls, ret |-> sent.ret, err |-> sent.err]
    ELSE sendMessage(AlarmMessage(record, alarm), post1)

\* The alarm branch once the message has decoded.
AlarmBranch(record, alarm, post1, post2) ==
    LET sent == sendMessage(AlarmMessage(record, alarm), post1)
    IN  IF sent.ret # "nil" THEN sent
        ELSE IF isFailing(record.Sns.Subject)
        THEN LET paged == triggerIncident(Incident(record, alarm), post2)
             IN  [calls |-> sent.calls \o paged.calls, ret |-> paged.ret, err |-> paged.err]
        ELSE sent

\* The RDS branch with an incident triggered after the chat message.
RDSBranchPaging(record, post1) ==
    LET sent == sendMessage(PlainMessage(record), post1)
    IN  IF sent.ret # "nil" THEN sent
        ELSE LET paged == triggerIncident(Incident(record, ZeroAlarm), post1)
             IN  [calls |-> sent.calls \o paged.calls, ret |-> paged.ret, err |-> paged.err]

\* The RDS branch and the branch of every other subject.
RDSBranch(record, post1) == sendMessage(PlainMessage(record), post1)

PlainBranch(record, post1) == sendMessage(PlainMessage(record), post1)

\* processSNSRecord; post1 and post2 are what the POSTs it makes come back with.
processSNSRecord(record, post1, post2) ==
    IF IsAlarmSubject(record.Sns.Subject)
    THEN LET decoded == UnmarshalAlarm(record.Sns.Message)
         IN  IF decoded.err
             THEN [calls |-> NoCalls, ret |-> "error",
                   err |-> "could not unmarshal Cloudwatch Alarm payload: " \o decoded.text]
             ELSE AlarmBranch(record, decoded.alarm, post1, post2)
    ELSE IF IsRDSSubject(record.Sns.Subject)
    THEN RDSBranch(record, post1)
    ELSE PlainBranch(record, post1)

----------------------------------------------------------------------------
(* The Cloudwatch event handlers.                                          *)

\* json.Unmarshal(event.Detail, &eventDetail) into a struct of strings: an
\* absent detail is empty input, a JSON string is of the wrong type.
DetailDecodes(detail) == detail.t \in {"null", "object"}

\* The error of a detail that does not decode into the struct goType.
DetailErrorText(detail, goType) ==
    IF detail.t = "absent" THEN SyntaxErrorText("")
    ELSE TypeErrorText(detail.t, goType)

EC2Color(state) ==
    IF contains(<<"shutting-down", "terminated", "stopping", "stopped">>, state)
    THEN ColorWarn ELSE ColorInfo

EC2Message(detail) ==
    SlackMessage("EC2 Instance State-change",
                 EC2Color(Member(detail, "state")),
                 << SlackField("CloudWatch Event", "EC2 Instance State-change", FALSE),
                    SlackField("instance-id", Member(detail, "instance-id"), TRUE),
                    SlackField("state", Member(detail, "state"), TRUE) >>)

processEC2StateChangeEvent(event, post) ==
    IF ~DetailDecodes(event.detail)
    THEN [calls |-> NoCalls, ret |-> "error",
          err |-> "unsupported EC2 Cloudwatch Event Detail: "
                  \o DetailErrorText(event.detail, "main.DetailEC2StateChange")]
    ELSE sendMessage(EC2Message(event.detail), post)

IsLifecycleAction(detailType) ==
    contains(<<"EC2 Instance-launch Lifecycle Action",
               "EC2 Instance-terminate Lifecycle Action">>, detailType)

\* `var eventDetail DetailAutoScalingLifecycleEvent` is declared and read;
\* event.Detail is never unmarshalled into it, so it holds its zero value.
LifecycleEventDetail(event) ==
    [AutoScalingGroupName |-> "", EC2InstanceId |-> "", LifecycleTransition |-> ""]

LifecycleMessage(event) ==
    LET eventDetail == LifecycleEventDetail(event)
    IN  SlackMessage("Autoscaling - Lifecycle Action", ColorInfo,
            << SlackField("CloudWatch Event", "Autoscaling - Lifecycle Action", FALSE),
               SlackField("AutoScalingGroupName", eventDetail.AutoScalingGroupName, TRUE),
               SlackField("EC2InstanceId", eventDetail.EC2InstanceId, TRUE),
               SlackField("LifecycleTransition", eventDetail.LifecycleTransition, TRUE) >>)

\* `var eventDetail DetailAutoScalingEC2Event`: likewise never unmarshalled.
ActivityEventDetail(event) ==
    [ EC2InstanceId |-> "", StatusCode |-> "",
      Details |-> [AvailabilityZone |-> ""], Cause |-> "" ]

\* The colour with the unsuccessful termination left out of the list.
ActivityColorLaunchOnly(detailType) ==
    IF contains(<<"EC2 Instance Launch Unsuccessful">>, detailType)
    THEN ColorWarn ELSE ColorInfo

ActivityColor(detailType) ==
    IF contains(<<"EC2 Instance Launch Unsuccessful",
                  "EC2 Instance Terminate Unsuccessful">>, detailType)
    THEN ColorWarn ELSE ColorInfo

ActivityMessage(event) ==
    LET eventDetail == ActivityEventDetail(event)
        title == "Autoscaling - " \o event.detailType
    IN  SlackMessage(title, ActivityColor(event.detailType),
            << SlackField("CloudWatch Event", title, FALSE),
               SlackField("EC2InstanceId", eventDetail.EC2InstanceId, TRUE),
               SlackField("StatusCode", eventDetail.StatusCode, TRUE),
               SlackField("Availability Zone", eventDetail.Details.AvailabilityZone, TRUE),
               SlackField("Cause", eventDetail.Cause, TRUE) >>)

processAutoscalingEvent(event, post) ==
    IF IsLifecycleAction(event.detailType)
    THEN sendMessage(LifecycleMessage(event), post)
    ELSE sendMessage(ActivityMessage(event), post)

\* The generic handler of every other source.
GenericMessage(event) ==
    SlackMessage(event.source, ColorInfo,
                 << SlackField("CloudWatch Event", event.source, FALSE),
                    SlackField("Event Detail JSON", event.detail.text, FALSE) >>)

----------------------------------------------------------------------------
(* processMessage                                                          *)

\* json.Unmarshal(raw, &data) into GenericEvent
GenericEventDecodes(payload) ==
    payload.valid /\ payload.Records.t \in {"absent", "null", "array"}

\* The error of a payload that does not decode into GenericEvent.
GenericEventErrorText(payload) ==
    IF ~payload.valid THEN SyntaxErrorText(MalformedText)
    ELSE FieldTypeErrorText(payload.Records.t, "GenericEvent", "Records",
                            "[]map[string]interface {}")

\* data.Records != nil && len(data.Records) != 0
HasRecords(payload) ==
    payload.Records.t = "array" /\ Len(payload.Records.v) # 0

\* Route with the length test left out: an empty list counts as records.
RouteWithoutLengthTest(payload) ==
    IF ~GenericEventDecodes(payload) THEN "error"
    ELSE IF payload.Records.t = "array"
    THEN IF Len(payload.Records.v) > 0
            /\ payload.Records.v[1].EventSource = "aws:sns"
         THEN "processSNSRecords"
         ELSE "drop"
    ELSE "processCloudwatchEvent"

\* Route with the decode error ignored: the zero GenericEvent is routed on.
RouteIgnoringDecodeError(payload) ==
    IF GenericEventDecodes(payload) /\ HasRecords(payload)
    THEN IF payload.Records.v[1].EventSource = "aws:sns"
         THEN "processSNSRecords"
         ELSE "drop"
    ELSE "processCloudwatchEvent"

\* Route with records of another source forwarded as "everything else".
RouteForeignToCloudwatch(payload) ==
    IF ~GenericEventDecodes(payload) THEN "error"
    ELSE IF HasRecords(payload) /\ payload.Records.v[1].EventSource = "aws:sns"
    THEN "processSNSRecords"
    ELSE "processCloudwatchEvent"

\* Where processMessage sends the payload.
Route(payload) ==
    IF ~GenericEventDecodes(payload) THEN "error"
    ELSE IF HasRecords(payload)
    THEN IF payload.Records.v[1].EventSource = "aws:sns"
         THEN "processSNSRecords"
         ELSE "drop"
    ELSE "processCloudwatchEvent"

\* json.Unmarshal(raw, &recordList) into SNSRecordList
SNSRecordListDecodes(payload) ==
    \A i \in 1..Len(payload.Records.v) : payload.Records.v[i].wellTyped

\* json.Unmarshal(raw, &event) into CloudwatchEvent
CloudwatchEventDecodes(payload) == payload.headerTyped

\* The errors of the two strict decodes: "Sns": "oops" in a record, and
\* "account": 123456789012 in an event.
SNSRecordListErrorText ==
    FieldTypeErrorText("string", "SNSRecord", "Records.Sns", "main.SNSMessage")

CloudwatchEventErrorText ==
    FieldTypeErrorText("number", "CloudwatchEvent", "account", "string")

----------------------------------------------------------------------------
(* The invocation.                                                         *)

Init ==
    /\ env \in SUBSET EnvNames
    /\ raw \in Payloads
    /\ pc = "HandleRequest"
    /\ idx = 0
    /\ invoked = <<>>
    /\ calls = <<>>
    /\ outcome = "pending"
    /\ err = ""

\* The invocation ends with outcome o.
Return(o, e) == pc' = "done" /\ outcome' = o /\ err' = e

\* The function at `next` runs next.
Goto(next) == pc' = next /\ UNCHANGED <<outcome, err>>

\* The POSTs of a run, each marked with the record it was made for (0: none).
CallsFor(run, record) ==
    [ i \in 1..Len(run.calls) |->
        [ sink |-> run.calls[i].sink, url |-> run.calls[i].url,
          body |-> run.calls[i].body, post |-> run.calls[i].post,
          record |-> record ] ]

HandleRequest ==
    /\ pc = "HandleRequest"
    /\ IF "slack_webhook" \notin env
       THEN Return("error", "could not read slack_webhook_enc from environment")
       ELSE IF "pagerduty_key" \notin env
       THEN Return("error", "could not read pagerduty_key from environment")
       ELSE Goto("processMessage")
    /\ UNCHANGED <<env, raw, idx, invoked, calls>>

ProcessMessage ==
    /\ pc = "processMessage"
    /\ LET to == Route(raw)
       IN  IF to = "error"
           THEN Return("error", "unsupported payload: " \o GenericEventErrorText(raw))
                /\ UNCHANGED invoked
           ELSE IF to = "drop"
           THEN Return("nil", "") /\ UNCHANGED invoked
           ELSE Goto(to) /\ invoked' = Append(invoked, to)
    /\ UNCHANGED <<env, raw, idx, calls>>

\* processSNSRecords up to the range loop.
ProcessSNSRecords ==
    /\ pc = "processSNSRecords"
    /\ IF ~SNSRecordListDecodes(raw)
       THEN Return("error", "could not unmarshal SNS record list: "
                            \o SNSRecordListErrorText)
            /\ UNCHANGED idx
       ELSE IF Len(raw.Records.v) = 0
       THEN Return("nil", "") /\ UNCHANGED idx
       ELSE Goto("processSNSRecord") /\ idx' = 1
    /\ UNCHANGED <<env, raw, invoked, calls>>

\* One iteration of the range loop: processSNSRecord on record idx.
ProcessSNSRecord ==
    /\ pc = "processSNSRecord"
    /\ \E post1, post2 \in PostOutcomes :
         LET run == processSNSRecord(raw.Records.v[idx], post1, post2)
         IN  /\ calls' = calls \o CallsFor(run, idx)
             /\ IF run.ret = "panic"
                THEN Return("panic", run.err) /\ UNCHANGED idx
                ELSE IF run.ret = "error"
                THEN Return("error", "could not process SNS record: " \o run.err)
                     /\ UNCHANGED idx
                ELSE IF idx < Len(raw.Records.v)
                THEN Goto("processSNSRecord") /\ idx' = idx + 1
                ELSE Return("nil", "") /\ UNCHANGED idx
    /\ UNCHANGED <<env, raw, invoked>>

\* processCloudwatchEvent up to the call of a sub-handler; the generic
\* handler is part of it.
ProcessCloudwatchEvent ==
    /\ pc = "processCloudwatchEvent"
    /\ IF ~CloudwatchEventDecodes(raw)
       THEN Return("error", "unsupported Cloudwatch Event payload: "
                            \o CloudwatchEventErrorText)
            /\ UNCHANGED calls
       ELSE IF raw.source = "aws.ec2"
       THEN /\ IF raw.detailType = "EC2 Instance State-change Notification"
               THEN Goto("processEC2StateChangeEvent")
               ELSE Return("nil", "")
            /\ UNCHANGED calls
       ELSE IF raw.source = "aws.events"
       THEN Return("nil", "") /\ UNCHANGED calls
       ELSE IF raw.source = "aws.autoscaling"
       THEN Goto("processAutoscalingEvent") /\ UNCHANGED calls
       ELSE \E post \in PostOutcomes :
              LET run == sendMessage(GenericMessage(raw), post)
              IN  /\ calls' = calls \o CallsFor(run, 0)
                  /\ Return(run.ret, run.err)
    /\ UNCHANGED <<env, raw, idx, invoked>>

\* processEC2StateChangeEvent and the return through processCloudwatchEvent.
ProcessEC2StateChangeEvent ==
    /\ pc = "processEC2StateChangeEvent"
    /\ \E post \in PostOutcomes :
         LET run == processEC2StateChangeEvent(raw, post)
         IN  /\ calls' = calls \o CallsFor(run, 0)
             /\ IF run.ret = "error"
                THEN Return("error", "failed to process EC2 Event: " \o run.err)
                ELSE Return(run.ret, run.err)
    /\ UNCHANGED <<env, raw, idx, invoked>>

\* processAutoscalingEvent and the return through processCloudwatchEvent.
ProcessAutoscalingEvent ==
    /\ pc = "processAutoscalingEvent"
    /\ \E post \in PostOutcomes :
         LET run == processAutoscalingEvent(raw, post)
         IN  /\ calls' = calls \o CallsFor(run, 0)
             /\ IF run.ret = "error"
                THEN Return("error", "failed to process Autoscaling Event: " \o run.err)
                ELSE Return(run.ret, run.err)
    /\ UNCHANGED <<env, raw, idx, invoked>>

Next ==
    \/ HandleRequest
    \/ ProcessMessage
    \/ ProcessSNSRecords
    \/ ProcessSNSRecord
    \/ ProcessCloudwatchEvent
    \/ ProcessEC2StateChangeEvent
    \/ ProcessAutoscalingEvent

Spec == Init /\ [][Next]_vars

----------------------------------------------------------------------------
(* Shapes of the state.                                                    *)

TypeOK ==
    /\ env \subseteq EnvNames
    /\ raw \in Payloads
    /\ pc \in { "HandleRequest", "processMessage", "processSNSRecords",
                "processSNSRecord", "processCloudwatchEvent",
                "processEC2StateChangeEvent", "processAutoscalingEvent", "done" }
    /\ idx \in 0..(MaxRecords + 1)
    /\ outcome \in {"pending", "nil", "error", "panic"}
    /\ (pc = "done") <=> (outcome # "pending")
    /\ \A i \in 1..Len(calls) : calls[i].sink \in {"slack", "pagerduty"}

----------------------------------------------------------------------------
(* Vocabulary of the properties.                                           *)

EnvComplete == EnvNames \subseteq env

\* processMessage has run and has taken its routing decision.
Dispatched == EnvComplete /\ pc \notin {"HandleRequest", "processMessage"}

Done == pc = "done"

\* The record list the envelope decodes to is absent (nil) or empty.
RecordsAbsentOrEmpty ==
    \/ raw.Records.t \in {"absent", "null"}
    \/ raw.Records.t = "array" /\ Len(raw.Records.v) = 0

\* The envelope decodes into GenericEvent.
EnvelopeDecoded == raw.valid /\ raw.Records.t # "string"

WasInvoked(classifier) == \E i \in 1..Len(invoked) : invoked[i] = classifier

CallsOf(sink) == {i \in 1..Len(calls) : calls[i].sink = sink}

\* The POSTs to `sink` made while record r was processed.
CallsOfRecord(sink, r) == {i \in CallsOf(sink) : calls[i].record = r}

\* The range loop is over record r: it was processed to its end.
Processed(r) ==
    /\ WasInvoked("processSNSRecords")
    /\ r \in 1..Len(raw.Records.v)
    /\ r < idx \/ (r = idx /\ Done)

SubjectOf(r) == raw.Records.v[r].Sns.Subject

HasAlarmMarker(r) == StringsContains(SubjectOf(r), "ALARM:")

HasOKMarker(r) == StringsContains(SubjectOf(r), "OK:")

\* Record r is an alarm record whose embedded message decodes.
DecodedAlarmRecord(r) ==
    /\ HasAlarmMarker(r) \/ HasOKMarker(r)
    /\ ~UnmarshalAlarm(raw.Records.v[r].Sns.Message).err

DimensionsOf(r) ==
    UnmarshalAlarm(raw.Records.v[r].Sns.Message).alarm.Trigger.Dimensions

----------------------------------------------------------------------------
(* C1: processMessage calls at most one classifier per payload; when the   *)
(* decoded record list is absent or empty it calls processCloudwatchEvent  *)
(* and not processSNSRecords; when it calls processSNSRecords it does not  *)
(* call processCloudwatchEvent.                                            *)
C1_ExclusiveClassification ==
    /\ Len(invoked) <= 1
    /\ ~(WasInvoked("processSNSRecords") /\ WasInvoked("processCloudwatchEvent"))
    /\ (Dispatched /\ EnvelopeDecoded /\ RecordsAbsentOrEmpty)
         => invoked = <<"processCloudwatchEvent">>
    /\ WasInvoked("processSNSRecords")
         => (raw.Records.t = "array" /\ Len(raw.Records.v) > 0)

\* An empty record list has been routed to processCloudwatchEvent.
C1_Witness ==
    /\ Dispatched
    /\ raw.Records.t = "array" /\ Len(raw.Records.v) = 0
    /\ invoked = <<"processCloudwatchEvent">>

----------------------------------------------------------------------------
(* C6: when the payload does not decode into the generic envelope,         *)
(* processMessage returns an error at once: no classifier is called and no *)
(* sink is posted to.                                                      *)
C6_MalformedPayloadFailsAtOnce ==
    /\ ~EnvelopeDecoded => (invoked = <<>> /\ calls = <<>>)
    /\ (Dispatched /\ ~EnvelopeDecoded) => (Done /\ outcome = "error")

\* processMessage has returned the error of a payload that is not JSON.
C6_Witness ==
    Dispatched /\ ~raw.valid /\ Done /\ outcome = "error" /\ calls = <<>>

----------------------------------------------------------------------------
(* C10: when the record list is non-empty and its first record's           *)
(* EventSource is not "aws:sns", processMessage returns nil, calls no      *)
(* classifier and posts to no sink.                                        *)
C10_ForeignRecordsDropped ==
    ( /\ Dispatched
      /\ EnvelopeDecoded
      /\ raw.Records.t = "array" /\ Len(raw.Records.v) > 0
      /\ raw.Records.v[1].EventSource # "aws:sns" )
    => (Done /\ outcome = "nil" /\ invoked = <<>> /\ calls = <<>>)

\* A batch whose first record is from another source, with an SNS record
\* behind it, has been dropped.
C10_Witness ==
    /\ Dispatched /\ Done /\ outcome = "nil"
    /\ raw.Records.t = "array" /\ Len(raw.Records.v) > 1
    /\ raw.Records.v[1].EventSource = "aws:s3"
    /\ raw.Records.v[2].EventSource = "aws:sns"
    /\ calls = <<>>

----------------------------------------------------------------------------
(* C2: processSNSRecords takes the records in list order and stops at the  *)
(* first record whose processSNSRecord fails (the alarm message does not   *)
(* decode, or a sink fails to send): it returns that error, and no sink is *)
(* posted to for a later record.  With three records of which the second   *)
(* does not decode, there is exactly one chat POST, for the first record.  *)
AlarmDecodeFails(r) ==
    /\ HasAlarmMarker(r) \/ HasOKMarker(r)
    /\ UnmarshalAlarm(raw.Records.v[r].Sns.Message).err

SinkSendFails(r) ==
    \E i \in 1..Len(calls) : calls[i].record = r /\ calls[i].post.err

C2_FailFastReturnsTheError ==
    /\ \A r \in 1..Len(raw.Records.v) :
         (Processed(r) /\ (AlarmDecodeFails(r) \/ SinkSendFails(r)))
         => /\ Done /\ outcome = "error" /\ idx = r
            /\ \A i \in 1..Len(calls) : calls[i].record <= r
    /\ \A i, j \in 1..Len(calls) : i < j => calls[i].record <= calls[j].record
    /\ ( /\ Len(raw.Records.v) = 3
         /\ Processed(2) /\ AlarmDecodeFails(2)
         /\ ~(HasAlarmMarker(1) /\ DecodedAlarmRecord(1)) )
       => /\ Cardinality(CallsOf("slack")) = 1
          /\ CallsOfRecord("slack", 1) # {}
          /\ \A i \in 1..Len(calls) : calls[i].record # 3

\* What of C2 holds whenever processSNSRecord returns (rather than panics):
\* the returned error ends the batch, and no later record is posted for.
FailFastOnReturnedError ==
    /\ \A r \in 1..Len(raw.Records.v) :
         (Processed(r) /\ outcome # "panic"
            /\ (AlarmDecodeFails(r) \/ SinkSendFails(r)))
         => /\ Done /\ outcome = "error" /\ idx = r
            /\ \A i \in 1..Len(calls) : calls[i].record <= r
    /\ (WasInvoked("processSNSRecords") /\ outcome = "panic")
         => \A i \in 1..Len(calls) : calls[i].record <= idx

----------------------------------------------------------------------------
(* C3 as stated: for a record whose subject holds "ALARM:" or "OK:" and    *)
(* whose message decodes, the paging sink is posted to if and only if the  *)
(* subject holds "ALARM:"; a record with "OK:" and without "ALARM:" gets a *)
(* chat message of the success colour and no paging POST.  It is stated    *)
(* for the runs that end without a panic, so that a violation shows the    *)
(* returned-error path of sendMessage and not the crash on a nil response. *)
OKRecordChatOnly(r) ==
    (HasOKMarker(r) /\ ~HasAlarmMarker(r))
    => /\ CallsOfRecord("pagerduty", r) = {}
       /\ Cardinality(CallsOfRecord("slack", r)) = 1
       /\ \A i \in CallsOfRecord("slack", r) :
            calls[i].body.Attachments[1].Color = ColorSuccess

C3_PagingIffFailing ==
    \A r \in 1..Len(raw.Records.v) :
      (Processed(r) /\ DecodedAlarmRecord(r) /\ outcome # "panic")
      => /\ (CallsOfRecord("pagerduty", r) # {}) <=> HasAlarmMarker(r)
         /\ OKRecordChatOnly(r)

(* C3 as amended: the paging sink is posted to if and only if the subject  *)
(* holds "ALARM:" and the chat send for that record returned success; the  *)
(* OK record is as stated.                                                 *)
C3_PagingIffFailingAndChatSent ==
    \A r \in 1..Len(raw.Records.v) :
      (Processed(r) /\ DecodedAlarmRecord(r))
      => /\ (CallsOfRecord("pagerduty", r) # {})
              <=> ( /\ HasAlarmMarker(r)
                    /\ \E i \in CallsOfRecord("slack", r) : calls[i].post = PostOk )
         /\ OKRecordChatOnly(r)

\* A batch of a failing alarm and an OK alarm has been processed: chat and
\* paging for the first, chat of the success colour alone for the second.
C3_Witness ==
    /\ Done /\ outcome = "nil"
    /\ Len(raw.Records.v) = 2 /\ Processed(1) /\ Processed(2)
    /\ DecodedAlarmRecord(1) /\ HasAlarmMarker(1)
    /\ DecodedAlarmRecord(2) /\ HasOKMarker(2) /\ ~HasAlarmMarker(2)
    /\ Len(calls) = 3
    /\ calls[1].sink = "slack" /\ calls[2].sink = "pagerduty"
    /\ calls[3].sink = "slack"
    /\ calls[3].body.Attachments[1].Color = ColorSuccess

----------------------------------------------------------------------------
(* C4: the incident posted for a failing alarm has the key "incident"      *)
(* followed by the dimensions' values in list order, and detail fields     *)
(* that map each dimension's name to its value (the last value of a name   *)
(* that occurs twice); with no dimension the key is "incident" and the     *)
(* mapping is empty; [(az, us-east-1b), (db, primary)] gives the key       *)
(* "incidentus-east-1bprimary" and {az: us-east-1b, db: primary}.          *)
RECURSIVE ValuesInOrder(_)
ValuesInOrder(dims) ==
    IF dims = <<>> THEN ""
    ELSE Head(dims).value \o ValuesInOrder(Tail(dims))

C4_IncidentKeyAndDetails ==
    \A i \in CallsOf("pagerduty") :
      LET dims == DimensionsOf(calls[i].record)
          key == calls[i].body.IncidentKey
          fields == calls[i].body.Details.Fields
      IN  /\ key = "incident" \o ValuesInOrder(dims)
          /\ DOMAIN fields = {dims[k].name : k \in 1..Len(dims)}
          /\ \A k \in 1..Len(dims) :
               (\A j \in (k + 1)..Len(dims) : dims[j].name # dims[k].name)
               => fields[dims[k].name] = dims[k].value
          /\ dims = <<>> => (key = "incident" /\ DOMAIN fields = {})
          /\ dims = ExampleDims
               => /\ key = "incidentus-east-1bprimary"
                  /\ fields = [az |-> "us-east-1b", db |-> "primary"]

\* The incident of the failing alarm with dimensions az and db was posted.
C4_Witness ==
    \E i \in CallsOf("pagerduty") :
      /\ DimensionsOf(calls[i].record) = ExampleDims
      /\ calls[i].body.IncidentKey = "incidentus-east-1bprimary"
      /\ calls[i].body.Details.Fields = [az |-> "us-east-1b", db |-> "primary"]

----------------------------------------------------------------------------
(* C5: the paging sink is posted to only from the failing-alarm branch of  *)
(* processSNSRecord: never for a Cloudwatch event of any source or         *)
(* detail-type, never for a plain or RDS record.                           *)
C5_PagingOnlyForFailingAlarms ==
    /\ \A i \in CallsOf("pagerduty") :
         /\ invoked = <<"processSNSRecords">>
         /\ calls[i].record \in 1..Len(raw.Records.v)
         /\ HasAlarmMarker(calls[i].record)
         /\ DecodedAlarmRecord(calls[i].record)
    /\ WasInvoked("processCloudwatchEvent") => CallsOf("pagerduty") = {}

\* The batch of an RDS record and a plain record has been processed to its
\* end with two chat POSTs and no paging POST.
C5_Witness ==
    /\ Done /\ outcome = "nil"
    /\ Len(raw.Records.v) = 2 /\ Processed(2)
    /\ SubjectOf(1) = SubjectRDS /\ SubjectOf(2) = SubjectPlain
    /\ Len(calls) = 2 /\ CallsOf("pagerduty") = {}

----------------------------------------------------------------------------
(* C7: when a sink POST fails to send, a transport failure included,       *)
(* sendMessage / triggerIncident return an error that ends the invocation  *)
(* with that error and leaves the rest of the batch unprocessed: a         *)
(* returned error, not a crash.                                            *)
C7_SinkFailureIsReturnedError ==
    \A i \in 1..Len(calls) :
      calls[i].post.err
      => (Done /\ outcome = "error" /\ i = Len(calls))

----------------------------------------------------------------------------
(* C8: for an autoscaling lifecycle action the chat message's group-name,  *)
(* instance-id and transition fields carry the values of the event's       *)
(* detail; for any other autoscaling detail-type the instance-id,          *)
(* status-code, availability-zone and cause fields do.                     *)
C8_AutoscalingFieldsCarryDetail ==
    ( /\ WasInvoked("processCloudwatchEvent")
      /\ raw.source = "aws.autoscaling"
      /\ raw.detail.t = "object" )
    => \A i \in CallsOf("slack") :
         LET f == calls[i].body.Attachments[1].Fields
         IN  IF raw.detailType \in { "EC2 Instance-launch Lifecycle Action",
                                     "EC2 Instance-terminate Lifecycle Action" }
             THEN /\ f[2].Value = Member(raw.detail, "AutoScalingGroupName")
                  /\ f[3].Value = Member(raw.detail, "EC2InstanceId")
                  /\ f[4].Value = Member(raw.detail, "LifecycleTransition")
             ELSE /\ f[2].Value = Member(raw.detail, "EC2InstanceId")
                  /\ f[3].Value = Member(raw.detail, "StatusCode")
                  /\ f[4].Value = Member(raw.detail, "Availability Zone")
                  /\ f[5].Value = Member(raw.detail, "Cause")

----------------------------------------------------------------------------
(* C9: a JSON payload with neither a record list nor an event structure    *)
(* (the empty object) makes processMessage return an error, with no sink   *)
(* POST.                                                                   *)
C9_EmptyObjectIsUnsupported ==
    ( /\ Dispatched /\ Done
      /\ raw.valid /\ raw.headerTyped
      /\ raw.Records.t \in {"absent", "null"}
      /\ raw.id = "" /\ raw.source = "" /\ raw.detailType = ""
      /\ raw.detail.t = "absent" )
    => (outcome = "error" /\ calls = <<>>)

----------------------------------------------------------------------------
(* C11 as stated: the chat message of an autoscaling instance-activity     *)
(* event (detail-type not a lifecycle action) has the warn colour when the *)
(* detail-type is "EC2 Instance Launch Unsuccessful" and the info colour   *)
(* for every other detail-type.                                            *)
AutoscalingActivityEvent ==
    /\ WasInvoked("processCloudwatchEvent")
    /\ raw.source = "aws.autoscaling"
    /\ raw.detailType \notin { "EC2 Instance-launch Lifecycle Action",
                               "EC2 Instance-terminate Lifecycle Action" }

ColorOfCall(i) == calls[i].body.Attachments[1].Color

C11_WarnOnlyOnLaunchUnsuccessful ==
    AutoscalingActivityEvent
    => \A i \in CallsOf("slack") :
         ColorOfCall(i) = IF raw.detailType = "EC2 Instance Launch Unsuccessful"
                          THEN ColorWarn ELSE ColorInfo

(* C11 as amended: the colour is warn when the detail-type is "EC2         *)
(* Instance Launch Unsuccessful" or "EC2 Instance Terminate Unsuccessful", *)
(* and info for every other autoscaling activity detail-type.              *)
C11_WarnOnUnsuccessfulActivity ==
    AutoscalingActivityEvent
    => \A i \in CallsOf("slack") :
         ColorOfCall(i) =
           IF raw.detailType \in { "EC2 Instance Launch Unsuccessful",
                                   "EC2 Instance Terminate Unsuccessful" }
           THEN ColorWarn ELSE ColorInfo

\* The chat message of an unsuccessful launch was posted in the warn colour.
C11_Witness ==
    /\ AutoscalingActivityEvent /\ Done
    /\ raw.detailType = "EC2 Instance Launch Unsuccessful"
    /\ Len(calls) = 1 /\ calls[1].sink = "slack"
    /\ ColorOfCall(1) = ColorWarn

----------------------------------------------------------------------------
(* C12: for an alarm record the chat POST comes before the paging POST,    *)
(* and the paging sink is posted to only after the chat send for that same *)
(* record returned success; when the chat send fails no incident is        *)
(* triggered for the record; a record causes at most one chat POST and at  *)
(* most one paging POST.                                                   *)
C12_ChatBeforePaging ==
    \A r \in 1..Len(raw.Records.v) :
      /\ Cardinality(CallsOfRecord("slack", r)) <= 1
      /\ Cardinality(CallsOfRecord("pagerduty", r)) <= 1
      /\ \A i \in CallsOfRecord("pagerduty", r) :
           \E j \in CallsOfRecord("slack", r) :
             j < i /\ calls[j].post = PostOk
      /\ (\E j \in CallsOfRecord("slack", r) : calls[j].post # PostOk)
           => CallsOfRecord("pagerduty", r) = {}

\* A failing alarm, the second record of its batch, has had its chat message
\* sent and then its incident triggered.
C12_Witness ==
    /\ Len(raw.Records.v) >= 2 /\ Processed(2)
    /\ DecodedAlarmRecord(2) /\ HasAlarmMarker(2)
    /\ \E j \in CallsOfRecord("slack", 2) :
         /\ calls[j].post = PostOk
         /\ j + 1 \in CallsOfRecord("pagerduty", 2)

====
